---- MODULE Spec2Model ----
(***************************************************************************)
(* examples/stablelm/quantize.cpp: the stablelm quantization tool.         *)
(*                                                                         *)
(* main checks the argument count, resolves the target type and calls      *)
(* stablelm_model_quantize, which opens the two files, copies the header,  *)
(* the hyperparameters (with the target type substituted) and the          *)
(* vocabulary, and hands both streams to ggml_common_quantize_0 together   *)
(* with the list of name patterns to quantize.                             *)
(*                                                                         *)
(* Files are sequences of bytes (0..255).  A 32-bit value is kept as the   *)
(* signed integer with the same bit pattern, so that every value fits in   *)
(* TLC's integers; U32Bytes and I32 are the little-endian byte view.       *)
(*                                                                         *)
(* ggml_parse_ftype and ggml_common_quantize_0 live in common-ggml.cpp,    *)
(* which is not part of the sources at hand; they are modelled from the    *)
(* design document (sections 4.4, 6 and 7).                                *)
(***************************************************************************)
EXTENDS Integers, Sequences, FiniteSets, TLC

(* ------------------------------ bounds --------------------------------- *)

\* longest vocabulary of a generated input, and cap of the vocabulary loop
MaxVocab == 2

\* most tensor records in a generated input
MaxTensors == 2

(* --------------------------- byte arithmetic --------------------------- *)

Min(a, b) == IF a < b THEN a ELSE b

\* s[p+1 .. p+n]
Slice(s, p, n) == SubSeq(s, p + 1, p + n)

\* the 4 bytes of a 32-bit x as fin.read/fout.write see them (little endian)
U32Bytes(x) ==
    LET low == IF x < 0 THEN (x + 2147483647) + 1 ELSE x
    IN  << low % 256,
           (low \div 256) % 256,
           (low \div 65536) % 256,
           (low \div 16777216) + (IF x < 0 THEN 128 ELSE 0) >>

\* the 32-bit value held in 4 little-endian bytes, as a signed integer
I32(b) ==
    LET low == b[1] + 256 * b[2] + 65536 * b[3] + 16777216 * (b[4] % 128)
    IN  IF b[4] >= 128 THEN (low - 2147483647) - 1 ELSE low

RECURSIVE Flatten(_)
Flatten(ss) == IF ss = << >> THEN << >> ELSE Head(ss) \o Flatten(Tail(ss))

RECURSIVE Product(_)
Product(ds) == IF ds = << >> THEN 1 ELSE Head(ds) * Product(Tail(ds))

RECURSIVE SeqsUpTo(_, _)
SeqsUpTo(S, n) ==
    IF n = 0 THEN { << >> }
    ELSE LET shorter == SeqsUpTo(S, n - 1)
         IN  shorter \cup { Append(s, x) : s \in shorter, x \in S }

(* ------------------------- program constants --------------------------- *)

\* if (magic == 0x67676d6c)  // ggml
MAGIC_GGML == 1734831468

\* else if (magic == 0x67676d66)  // ggmf
MAGIC_GGMF == 1734831462

\* struct stablelm_hparams, default member initialisers, in declaration order
DefaultHparams == << 50257, 4096, 4096, 32, 16, 32, 1, 1 >>

\* ".*weight" as characters
PAT_WEIGHT == << 46, 42, 119, 101, 105, 103, 104, 116 >>

\* a wrong pattern list: every name matches
to_quant_all == << << 46, 42 >> >>

\* a wrong pattern list: "weight.*", names that begin with weight
to_quant_prefix == << << 119, 101, 105, 103, 104, 116, 46, 42 >> >>

\* const std::vector<std::string> to_quant = { ".*weight", };
to_quant == << PAT_WEIGHT >>

\* the exclusion list passed to ggml_common_quantize_0: {}
to_skip == << >>

(* ------------- ggml types and the encoder (design document) ------------ *)

\* element types a record may declare, and their widths in bytes
TYPE_F32 == 0

TYPE_F16 == 1

TYPE_Q4_0 == 2

TYPE_Q4_1 == 3

\* what ggml_parse_ftype returns for a value outside the enumeration
FTYPE_UNKNOWN == -1

\* the supported quantization encodings (format-type tags)
SupportedFtypes == { TYPE_Q4_0, TYPE_Q4_1 }

\* ggml_parse_ftype: a symbolic or numeric identifier resolved against the
\* fixed enumeration
ggml_parse_ftype(str) ==
    CASE str = "q4_0" -> TYPE_Q4_0
      [] str = "q4_1" -> TYPE_Q4_1
      [] str = "2"    -> TYPE_Q4_0
      [] str = "3"    -> TYPE_Q4_1
      [] OTHER        -> FTYPE_UNKNOWN

\* width of one element of a declared type
TypeWidth(t) == IF t = TYPE_F16 THEN 2 ELSE 4

\* elements packed into one block of a quantized encoding
BlockElems == 4

\* bytes of one block: a 2-byte scale (and a 2-byte minimum for q4_1), then
\* 4 bits per element
BlockBytes(t) == (IF t = TYPE_Q4_1 THEN 4 ELSE 2) + (BlockElems \div 2)

\* expected_size(target_type, element_count)
ExpectedSize(t, n) == ((n + BlockElems - 1) \div BlockElems) * BlockBytes(t)

\* the encoder capability: the packed buffer for n elements; only its size is
\* specified, its bytes stand for the encoder's output
Encode(t, payload, n) == [ k \in 1 .. ExpectedSize(t, n) |-> (t + k) % 256 ]

\* a dimensionality the engine never quantizes
QuantizableRank_any(nd) == TRUE

\* "dimensionality matching a quantizable pattern": matrices
QuantizableRank(nd) == nd = 2

\* std::regex_match of a whole name against a pattern of literals, '.' and
\* a starred atom
RECURSIVE RegexMatch(_, _)
RegexMatch(p, s) ==
    LET atom(c, x) == c = 46 \/ c = x
    IN  IF p = << >> THEN s = << >>
        ELSE IF Len(p) >= 2 /\ p[2] = 42
             THEN \/ RegexMatch(Tail(Tail(p)), s)
                  \/ /\ s # << >>
                     /\ atom(p[1], s[1])
                     /\ RegexMatch(p, Tail(s))
             ELSE /\ s # << >>
                  /\ atom(p[1], s[1])
                  /\ RegexMatch(Tail(p), Tail(s))

\* the rule set: some inclusion pattern matches and no exclusion pattern does
Selected(name, quant, skip) ==
    /\ \E k \in 1 .. Len(quant) : RegexMatch(quant[k], name)
    /\ \A k \in 1 .. Len(skip) : ~RegexMatch(skip[k], name)

(* ----------------------------- wire format ----------------------------- *)

\* magic:u32 [version:u32 if versioned]
SerHeader(h) ==
    U32Bytes(h.magic) \o (IF h.versioned THEN U32Bytes(h.version) ELSE << >>)

\* hparams: 8 x i32
SerHparams(hp) == Flatten([ k \in 1 .. Len(hp) |-> U32Bytes(hp[k]) ])

\* vocab: (len:u32 bytes:u8[len]) x n_vocab
SerVocab(v) == Flatten([ k \in 1 .. Len(v) |-> U32Bytes(Len(v[k])) \o v[k] ])

\* name_len:u32 name n_dims:u32 dims:i32[n_dims] dtype:i32
SerRecordHeader(name, dims, dtype) ==
    U32Bytes(Len(name)) \o name \o U32Bytes(Len(dims))
        \o Flatten([ k \in 1 .. Len(dims) |-> U32Bytes(dims[k]) ])
        \o U32Bytes(dtype)

\* a whole tensor record
SerTensor(t) == SerRecordHeader(t.name, t.dims, t.dtype) \o t.payload

SerTensors(ts) == Flatten([ k \in 1 .. Len(ts) |-> SerTensor(ts[k]) ])

SerPreamble(h, hp, v) == SerHeader(h) \o SerHparams(hp) \o SerVocab(v)

SerFile(h, hp, v, ts) == SerPreamble(h, hp, v) \o SerTensors(ts)

\* the record at offset p of f, or ok = FALSE when f ends inside it
ReadRecord(f, p) ==
    LET short == [ ok |-> FALSE ]
        left(q) == Len(f) - q
    IN
    IF left(p) < 4 THEN short ELSE
    LET nl == I32(Slice(f, p, 4))
        p1 == p + 4
    IN
    IF nl < 0 \/ left(p1) < nl + 4 THEN short ELSE
    LET nm == Slice(f, p1, nl)
        nd == I32(Slice(f, p1 + nl, 4))
        p2 == p1 + nl + 4
    IN
    IF nd < 0 \/ left(p2) < 4 * nd + 4 THEN short ELSE
    LET ds == [ k \in 1 .. nd |-> I32(Slice(f, p2 + 4 * (k - 1), 4)) ]
        dt == I32(Slice(f, p2 + 4 * nd, 4))
        p3 == p2 + 4 * nd + 4
        ne == Product(ds)
        plen == ne * TypeWidth(dt)
    IN
    IF plen < 0 \/ left(p3) < plen THEN short ELSE
    [ ok |-> TRUE, name |-> nm, dims |-> ds, dtype |-> dt, ne |-> ne,
      payload |-> Slice(f, p3, plen), next |-> p3 + plen ]

(* ------------------------------- inputs -------------------------------- *)

\* a magic that is neither ggml nor ggmf: the bytes "GGUF"
BAD_MAGIC == I32(<< 71, 71, 85, 70 >>)

Headers ==
    { [ magic |-> MAGIC_GGML, versioned |-> FALSE, version |-> 0 ],
      [ magic |-> MAGIC_GGMF, versioned |-> TRUE,  version |-> 1 ],
      [ magic |-> MAGIC_GGMF, versioned |-> TRUE,  version |-> 2 ],
      [ magic |-> BAD_MAGIC,  versioned |-> FALSE, version |-> 0 ] }

\* format-type values a source file may store
StoredFtypes == { 0, 3 }

\* the 8 hyperparameters of a file with a vocabulary of nv entries
HparamsOf(nv, stored) == << nv, 4096, 6, 7, 8, 9, 1, stored >>

\* vocabulary words: "", "a", "ba"
Words == { << >>, << 97 >>, << 98, 97 >> }

Payload(n, seed) == [ k \in 1 .. n |-> (seed + 3 * k) % 256 ]

\* "pos_emb", f32 [2]
T_pos_emb ==
    [ name |-> << 112, 111, 115, 95, 101, 109, 98 >>, dims |-> << 2 >>,
      dtype |-> TYPE_F32, payload |-> Payload(8, 10) ]

\* "a.weight", f32 [2,2]
T_a_weight ==
    [ name |-> << 97, 46, 119, 101, 105, 103, 104, 116 >>, dims |-> << 2, 2 >>,
      dtype |-> TYPE_F32, payload |-> Payload(16, 40) ]

\* "weight", f16 [2,2]
T_weight16 ==
    [ name |-> << 119, 101, 105, 103, 104, 116 >>, dims |-> << 2, 2 >>,
      dtype |-> TYPE_F16, payload |-> Payload(8, 70) ]

\* "n.weight", f32 [4]: a vector
T_n_weight ==
    [ name |-> << 110, 46, 119, 101, 105, 103, 104, 116 >>, dims |-> << 4 >>,
      dtype |-> TYPE_F32, payload |-> Payload(16, 100) ]

\* "weight_g", f16 [2,2]: "weight" is not its suffix
T_weight_g ==
    [ name |-> << 119, 101, 105, 103, 104, 116, 95, 103 >>, dims |-> << 2, 2 >>,
      dtype |-> TYPE_F16, payload |-> Payload(8, 130) ]

Tensors == { T_pos_emb, T_a_weight, T_weight16, T_n_weight, T_weight_g }

\* argv[3]
TypeArgs == { "q4_0", "3", "bogus" }

\* contents of an output path that exists before the run
OldOutput == << 7, 7, 7 >>

\* values an uninitialised uint32_t magic / version may hold
UninitWords == { U32Bytes(0), U32Bytes(MAGIC_GGML), U32Bytes(MAGIC_GGMF) }

\* values an uninitialised uint32_t len may hold (small ones; with a large
\* one word.resize allocates that much or throws)
UninitLens == { U32Bytes(0), U32Bytes(2) }

(* -------------------------------- state -------------------------------- *)

VARIABLES
    pc,          \* position in main / stablelm_model_quantize
    argc,        \* argument count
    typeArg,     \* argv[3]
    inOpenable,  \* the input path can be opened for reading
    outOpenable, \* the output path can be opened for writing
    inFile,      \* bytes of the input file
    src,         \* the header, hyperparameters, vocabulary and tensors inFile was built from
    outExists,   \* the output path exists
    outDisk,     \* bytes of the output file
    finOpen,     \* fin has been opened
    foutOpen,    \* fout has been opened
    pos,         \* read position of fin
    finFail,     \* fin is in the failed state (a read came up short)
    ftype,       \* the resolved target type
    magic,       \* uint32_t magic
    hparams,     \* stablelm_hparams hparams, in declaration order
    i,           \* vocabulary loop counter
    word,        \* std::string word
    vocab,       \* gpt_vocab vocab
    qargs,       \* patterns passed to ggml_common_quantize_0
    tlog,        \* per tensor record: its input bytes and the bytes written for it
    shortOut,    \* length of the output at the first short read, -1 before
    usage,       \* the usage help has been printed
    retval,      \* return value of stablelm_model_quantize
    exitCode     \* return value of main, -1 while running

vars ==
    << pc, argc, typeArg, inOpenable, outOpenable, inFile, src, outExists,
       outDisk, finOpen, foutOpen, pos, finFail, ftype, magic, hparams, i,
       word, vocab, qargs, tlog, shortOut, usage, retval, exitCode >>

\* a file built from a header, a stored format type, a vocabulary and tensor
\* records, and the length cut is kept of it
Scenario(h, st, v, ts, cut) ==
    [ hdr |-> h, hp |-> HparamsOf(Len(v), st), voc |-> v, tens |-> ts,
      whole |-> cut = Len(SerFile(h, HparamsOf(Len(v), st), v, ts)),
      cut |-> cut ]

Whole(h, st, v, ts) ==
    Scenario(h, st, v, ts, Len(SerFile(h, HparamsOf(Len(v), st), v, ts)))

\* whole files without tensors: every header, stored type and vocabulary
PreambleScenarios ==
    { Whole(h, st, v, << >>) :
        h \in Headers, st \in StoredFtypes, v \in SeqsUpTo(Words, MaxVocab) }

\* whole files with tensors: every list of records
TensorScenarios ==
    { Whole(h, 0, v, ts) :
        h \in { x \in Headers : x.magic # BAD_MAGIC /\ x.version # 2 },
        v \in { << >>, << << 98, 97 >> >> },
        ts \in SeqsUpTo(Tensors, MaxTensors) \ { << >> } }

\* whole files the environment fails on
EnvScenarios ==
    { Whole(h, 0, << >>, ts) :
        h \in { x \in Headers : x.version # 2 }, ts \in { << >>, << T_pos_emb >> } }

\* files cut short at every length
CutScenarios ==
    UNION { { Scenario(h, 0, v, ts, c) :
                c \in 0 .. Len(SerFile(h, HparamsOf(Len(v), 0), v, ts)) - 1 } :
            h \in { x \in Headers : x.magic # BAD_MAGIC /\ x.version # 2 },
            v \in SeqsUpTo(Words, MaxVocab),
            ts \in { << >>, << T_a_weight >> } }

Start(sc, ac, ta, io, oo, oe) ==
    /\ pc = "main"
    /\ argc = ac
    /\ typeArg = ta
    /\ inOpenable = io
    /\ outOpenable = oo
    /\ src = sc
    /\ inFile = SubSeq(SerFile(sc.hdr, sc.hp, sc.voc, sc.tens), 1, sc.cut)
    /\ outExists = oe
    /\ outDisk = IF oe THEN OldOutput ELSE << >>
    /\ finOpen = FALSE
    /\ foutOpen = FALSE
    /\ pos = 0
    /\ finFail = FALSE
    /\ ftype = 0
    /\ magic = 0
    /\ hparams = DefaultHparams
    /\ i = 0
    /\ word = << >>
    /\ vocab = [ token_to_id |-> << >>, id_to_token |-> << >> ]
    /\ qargs = [ called |-> FALSE, to_quant |-> << >>, to_skip |-> << >> ]
    /\ tlog = << >>
    /\ shortOut = -1
    /\ usage = FALSE
    /\ retval = FALSE
    /\ exitCode = -1

Init ==
    \/ \E sc \in PreambleScenarios \cup TensorScenarios, ta \in TypeArgs :
           Start(sc, 4, ta, TRUE, TRUE, TRUE)
    \/ \E sc \in EnvScenarios, ac \in { 3, 4, 5 }, ta \in TypeArgs,
          io \in BOOLEAN, oo \in BOOLEAN, oe \in BOOLEAN :
           Start(sc, ac, ta, io, oo, oe)
    \/ \E sc \in CutScenarios :
           Start(sc, 4, "q4_0", TRUE, TRUE, FALSE)

(* ------------------------------- streams ------------------------------- *)

\* fin.read(buf, n) at position p: a failed stream reads nothing; otherwise
\* the bytes that are left fill the front of buf, the rest of buf keeps what
\* it held, and fewer than n bytes put the stream in the failed state
FinRead(f, p, failed, buf, n) ==
    IF failed THEN [ buf |-> buf, pos |-> p, fail |-> TRUE ]
    ELSE LET k == Min(n, Len(f) - p)
         IN  [ buf |-> Slice(f, p, k) \o SubSeq(buf, k + 1, n),
               pos |-> p + k,
               fail |-> k < n ]

\* fin.read of the fields k .. Len(vals) of a struct, one read per field
RECURSIVE ReadFields(_, _, _, _, _)
ReadFields(f, p, failed, vals, k) ==
    IF k > Len(vals) THEN [ vals |-> vals, pos |-> p, fail |-> failed ]
    ELSE LET r == FinRead(f, p, failed, U32Bytes(vals[k]), 4)
         IN  ReadFields(f, r.pos, r.fail, [ vals EXCEPT ![k] = I32(r.buf) ], k + 1)

\* word.resize(len): the front of word is kept, new bytes are zero
Resize(w, len) == [ k \in 1 .. len |-> IF k <= Len(w) THEN w[k] ELSE 0 ]

\* m[key] = val of a std::map held as a function
MapPut(m, key, val) ==
    [ x \in DOMAIN m \cup { key } |-> IF x = key THEN val ELSE m[x] ]

\* the output length at the first short read
NoteShort(failed, len) ==
    IF shortOut # -1 THEN shortOut ELSE IF failed THEN len ELSE -1

(* ------------------------------- actions ------------------------------- *)

\* main: argument count, ggml_parse_ftype
MainArgs ==
    /\ pc = "main"
    /\ IF argc # 4
       THEN /\ usage' = TRUE
            /\ exitCode' = 1
            /\ pc' = "done"
            /\ UNCHANGED ftype
       ELSE /\ ftype' = ggml_parse_ftype(typeArg)
            /\ pc' = "open_in"
            /\ UNCHANGED << usage, exitCode >>
    /\ UNCHANGED << argc, typeArg, inOpenable, outOpenable, inFile, src,
                    outExists, outDisk, finOpen, foutOpen, pos, finFail, magic,
                    hparams, i, word, vocab, qargs, tlog, shortOut, retval >>

\* a wrong failure branch: the return is missing and the output is opened
OpenInFailed_fallthrough == "open_out"

\* if (!fin) { ...; return false; }
OpenInFailed == "ret"

\* auto fin = std::ifstream(fname_in, std::ios::binary)
OpenIn ==
    /\ pc = "open_in"
    /\ IF ~inOpenable
       THEN /\ retval' = FALSE
            /\ pc' = OpenInFailed
            /\ UNCHANGED finOpen
       ELSE /\ finOpen' = TRUE
            /\ pc' = "open_out"
            /\ UNCHANGED retval
    /\ UNCHANGED << argc, typeArg, inOpenable, outOpenable, inFile, src,
                    outExists, outDisk, foutOpen, pos, finFail, ftype, magic,
                    hparams, i, word, vocab, qargs, tlog, shortOut, usage,
                    exitCode >>

\* auto fout = std::ofstream(fname_out, std::ios::binary): creates or truncates
OpenOut ==
    /\ pc = "open_out"
    /\ IF ~outOpenable
       THEN /\ retval' = FALSE
            /\ pc' = "ret"
            /\ UNCHANGED << foutOpen, outExists, outDisk >>
       ELSE /\ foutOpen' = TRUE
            /\ outExists' = TRUE
            /\ outDisk' = << >>
            /\ pc' = "header"
            /\ UNCHANGED retval
    /\ UNCHANGED << argc, typeArg, inOpenable, outOpenable, inFile, src,
                    finOpen, pos, finFail, ftype, magic, hparams, i, word,
                    vocab, qargs, tlog, shortOut, usage, exitCode >>

\* a wrong header stage: the magic is written before it is looked at
HeaderRejectOut_early(m) == outDisk \o U32Bytes(m)

\* what the output holds when the magic is rejected
HeaderRejectOut(m) == outDisk

\* verify magic and version
Header ==
    /\ pc = "header"
    /\ \E g \in UninitWords, gv \in UninitWords :
         LET r1 == FinRead(inFile, pos, finFail, g, 4)
             m  == I32(r1.buf)
             r2 == FinRead(inFile, r1.pos, r1.fail, gv, 4)
         IN
         /\ magic' = m
         /\ IF m = MAGIC_GGML
            THEN /\ outDisk' = outDisk \o U32Bytes(m)
                 /\ pos' = r1.pos
                 /\ finFail' = r1.fail
                 /\ shortOut' = NoteShort(r1.fail, Len(outDisk))
                 /\ pc' = "hparams"
                 /\ UNCHANGED retval
            ELSE IF m = MAGIC_GGMF
            THEN /\ outDisk' = (outDisk \o U32Bytes(m)) \o r2.buf
                 /\ pos' = r2.pos
                 /\ finFail' = r2.fail
                 /\ shortOut' = NoteShort(r2.fail, Len(outDisk))
                 /\ pc' = "hparams"
                 /\ UNCHANGED retval
            ELSE /\ outDisk' = HeaderRejectOut(m)
                 /\ pos' = r1.pos
                 /\ finFail' = r1.fail
                 /\ shortOut' = NoteShort(r1.fail, Len(outDisk))
                 /\ retval' = FALSE
                 /\ pc' = "ret"
    /\ UNCHANGED << argc, typeArg, inOpenable, outOpenable, inFile, src,
                    outExists, finOpen, foutOpen, ftype, hparams, i, word,
                    vocab, qargs, tlog, usage, exitCode >>

\* a wrong hyperparameter stage: the stored format type is echoed
HparamsOut_stored(hp, ft) == SerHparams(hp)

\* the 8 fields written: 7 of hparams, then the target type
HparamsOut(hp, ft) == SerHparams(SubSeq(hp, 1, 7)) \o U32Bytes(ft)

\* load hparams
Hparams ==
    /\ pc = "hparams"
    /\ LET r == ReadFields(inFile, pos, finFail, hparams, 1)
       IN  /\ hparams' = r.vals
           /\ pos' = r.pos
           /\ finFail' = r.fail
           /\ shortOut' = NoteShort(r.fail, Len(outDisk))
           /\ outDisk' = outDisk \o HparamsOut(r.vals, ftype)
    /\ pc' = "vocab"
    /\ UNCHANGED << argc, typeArg, inOpenable, outOpenable, inFile, src,
                    outExists, finOpen, foutOpen, ftype, magic, i, word, vocab,
                    qargs, tlog, usage, retval, exitCode >>

\* a wrong loop test: one entry too few
VocabMore_short == i + 1 < hparams[1] /\ i < MaxVocab

\* for (int i = 0; i < n_vocab; i++), capped at MaxVocab iterations
VocabMore == i < hparams[1] /\ i < MaxVocab

\* load vocab: one iteration
VocabEntry ==
    /\ pc = "vocab"
    /\ VocabMore
    /\ \E g \in UninitLens :
         LET r1   == FinRead(inFile, pos, finFail, g, 4)
             len  == I32(r1.buf)
             out1 == outDisk \o r1.buf
             r2   == FinRead(inFile, r1.pos, r1.fail, Resize(word, len), len)
         IN
         /\ word' = r2.buf
         /\ outDisk' = out1 \o r2.buf
         /\ pos' = r2.pos
         /\ finFail' = r2.fail
         /\ shortOut' = IF r1.fail THEN NoteShort(TRUE, Len(outDisk))
                        ELSE NoteShort(r2.fail, Len(out1))
         /\ vocab' = [ token_to_id |-> MapPut(vocab.token_to_id, r2.buf, i),
                       id_to_token |-> MapPut(vocab.id_to_token, i, r2.buf) ]
    /\ i' = i + 1
    /\ UNCHANGED << pc, argc, typeArg, inOpenable, outOpenable, inFile, src,
                    outExists, finOpen, foutOpen, ftype, magic, hparams,
                    qargs, tlog, usage, retval, exitCode >>

\* the call ggml_common_quantize_0(fin, fout, ftype, to_quant, {}) and the
\* engine's check of the target type
Quantize0Begin ==
    /\ pc = "vocab"
    /\ ~VocabMore
    /\ qargs' = [ called |-> TRUE, to_quant |-> to_quant, to_skip |-> to_skip ]
    /\ IF ftype \in SupportedFtypes
       THEN /\ pc' = "records"
            /\ UNCHANGED retval
       ELSE /\ retval' = FALSE
            /\ pc' = "ret"
    /\ UNCHANGED << argc, typeArg, inOpenable, outOpenable, inFile, src,
                    outExists, outDisk, finOpen, foutOpen, pos, finFail, ftype,
                    magic, hparams, i, word, vocab, tlog, shortOut, usage,
                    exitCode >>

\* the engine is at a clean end of the stream
AtEnd == finFail \/ pos = Len(inFile)

\* the engine: one tensor record
Quantize0Record ==
    /\ pc = "records"
    /\ ~AtEnd
    /\ LET r == ReadRecord(inFile, pos)
       IN
       IF ~r.ok
       THEN /\ pos' = Len(inFile)
            /\ finFail' = TRUE
            /\ retval' = FALSE
            /\ pc' = "ret"
            /\ UNCHANGED << outDisk, tlog >>
       ELSE LET quantize == /\ Selected(r.name, qargs.to_quant, qargs.to_skip)
                            /\ QuantizableRank(Len(r.dims))
                outType  == IF quantize THEN ftype ELSE r.dtype
                outData  == IF quantize THEN Encode(ftype, r.payload, r.ne)
                            ELSE r.payload
                rec      == SerRecordHeader(r.name, r.dims, outType) \o outData
            IN  /\ outDisk' = outDisk \o rec
                /\ tlog' = Append(tlog, [ in  |-> Slice(inFile, pos, r.next - pos),
                                          out |-> rec ])
                /\ pos' = r.next
                /\ UNCHANGED << finFail, retval, pc >>
    /\ UNCHANGED << argc, typeArg, inOpenable, outOpenable, inFile, src,
                    outExists, finOpen, foutOpen, ftype, magic, hparams, i,
                    word, vocab, qargs, shortOut, usage, exitCode >>

\* the engine returns true at the end of the stream; fin.close(),
\* fout.close(), return true
Quantize0End ==
    /\ pc = "records"
    /\ AtEnd
    /\ finOpen' = FALSE
    /\ foutOpen' = FALSE
    /\ retval' = TRUE
    /\ pc' = "ret"
    /\ UNCHANGED << argc, typeArg, inOpenable, outOpenable, inFile, src,
                    outExists, outDisk, pos, finFail, ftype, magic, hparams, i,
                    word, vocab, qargs, tlog, shortOut, usage, exitCode >>

\* main: return 1 when stablelm_model_quantize failed, else 0
MainReturn ==
    /\ pc = "ret"
    /\ exitCode' = IF retval THEN 0 ELSE 1
    /\ pc' = "done"
    /\ UNCHANGED << argc, typeArg, inOpenable, outOpenable, inFile, src,
                    outExists, outDisk, finOpen, foutOpen, pos, finFail, ftype,
                    magic, hparams, i, word, vocab, qargs, tlog, shortOut,
                    usage, retval >>

Next ==
    \/ MainArgs
    \/ OpenIn
    \/ OpenOut
    \/ Header
    \/ Hparams
    \/ VocabEntry
    \/ Quantize0Begin
    \/ Quantize0Record
    \/ Quantize0End
    \/ MainReturn

Spec == Init /\ [][Next]_vars

(* ------------------------------ properties ----------------------------- *)

Recognized == { MAGIC_GGML, MAGIC_GGMF }

\* bytes of the header of a stream with magic m
HeaderLen(m) == IF m = MAGIC_GGMF THEN 8 ELSE 4

\* the header stage has run and accepted the magic
HeaderPassed == magic \in Recognized /\ pc # "header"

\* the hyperparameter stage has run
HparamsDone == HeaderPassed /\ pc # "hparams"

\* the 8 fields held at offset p of f
FieldsAt(f, p) == [ k \in 1 .. 8 |-> I32(Slice(f, p + 4 * (k - 1), 4)) ]

\* n length-prefixed entries decoded from offset p of f
RECURSIVE DecodeVocab(_, _, _)
DecodeVocab(f, p, n) ==
    IF n = 0 THEN [ ok |-> TRUE, words |-> << >>, next |-> p ]
    ELSE IF Len(f) - p < 4 THEN [ ok |-> FALSE, words |-> << >>, next |-> p ]
    ELSE LET len == I32(Slice(f, p, 4))
         IN  IF len < 0 \/ Len(f) - (p + 4) < len
             THEN [ ok |-> FALSE, words |-> << >>, next |-> p ]
             ELSE LET rest == DecodeVocab(f, p + 4 + len, n - 1)
                  IN  [ ok |-> rest.ok,
                        words |-> << Slice(f, p + 4, len) >> \o rest.words,
                        next |-> rest.next ]

\* the input holds its whole preamble (header, hyperparameters, vocabulary)
PreambleWhole == src.cut >= Len(SerPreamble(src.hdr, src.hp, src.voc))

\* "weight"
WEIGHT == << 119, 101, 105, 103, 104, 116 >>

EndsInWeight(name) ==
    /\ Len(name) >= Len(WEIGHT)
    /\ SubSeq(name, Len(name) - Len(WEIGHT) + 1, Len(name)) = WEIGHT

\* the old contents of the output path are gone: the file holds what this run wrote
Truncated ==
    /\ outExists
    /\ outDisk = << >> \/ (Len(outDisk) >= 4 /\ Slice(outDisk, 0, 4) = U32Bytes(magic))

\* C1: for every input whose first 4 bytes are a recognized magic, the header
\* stage leaves in the output exactly the input's header (the magic, and the
\* version word iff the magic is the versioned one) and has consumed exactly
\* that header.
C1_HeaderEqualsInput ==
    ( /\ pc = "hparams"
      /\ Len(inFile) >= 4
      /\ I32(Slice(inFile, 0, 4)) \in Recognized )
    => LET n == HeaderLen(I32(Slice(inFile, 0, 4)))
       IN  /\ Len(inFile) >= n
           /\ outDisk = SubSeq(inFile, 1, n)
           /\ pos = n

\* C2: once the header stage has read a magic that is neither recognized value,
\* the function is returning false, nothing has been written to the output,
\* and the hyperparameter, vocabulary and tensor stages have not run.
C2_BadMagicAborts ==
    ( /\ foutOpen
      /\ pc # "header"
      /\ magic \notin Recognized )
    => /\ pc \in { "ret", "done" }
       /\ retval = FALSE
       /\ outDisk = << >>
       /\ hparams = DefaultHparams
       /\ i = 0
       /\ vocab.id_to_token = << >>
       /\ ~qargs.called
       /\ tlog = << >>
       /\ pc = "done" => exitCode = 1

C2_Witness ==
    /\ pc = "done"
    /\ foutOpen
    /\ magic = BAD_MAGIC
    /\ Len(inFile) >= 36
    /\ outExists
    /\ exitCode = 1

\* C3: when the input holds all 8 hyperparameters, the output holds, right
\* after its header, 8 fields of which the first 7 equal the input's and the
\* 8th equals the requested target type; the stage reads and writes exactly
\* these 8 fields.
C3_HparamsEcho ==
    ( /\ HparamsDone
      /\ Len(inFile) >= HeaderLen(magic) + 32 )
    => LET hl   == HeaderLen(magic)
           inF  == FieldsAt(inFile, hl)
           outF == FieldsAt(outDisk, hl)
       IN  /\ Len(outDisk) >= hl + 32
           /\ \A k \in 1 .. 7 : outF[k] = inF[k] /\ hparams[k] = inF[k]
           /\ outF[8] = ggml_parse_ftype(typeArg)
           /\ (pc = "vocab" /\ i = 0) => (Len(outDisk) = hl + 32 /\ pos = hl + 32)

C3_Witness ==
    /\ pc = "vocab"
    /\ i = 0
    /\ src.whole
    /\ magic = MAGIC_GGMF
    /\ FieldsAt(inFile, 8)[8] = 0
    /\ FieldsAt(outDisk, 8)[8] = TYPE_Q4_1
    /\ FieldsAt(outDisk, 8)[2] = 4096

\* C4: for an input with a whole preamble and vocabulary size N, when the
\* vocabulary loop ends it has consumed exactly the N entries of the input and
\* the output's vocabulary section decodes to the same words at the same
\* indices; with N = 0 nothing was read and nothing written.
C4_VocabRoundTrip ==
    ( /\ HparamsDone
      /\ PreambleWhole
      /\ pc = "vocab"
      /\ ~VocabMore )
    => LET start == HeaderLen(magic) + 32
           N     == Len(src.voc)
           dOut  == DecodeVocab(outDisk, start, N)
           dIn   == DecodeVocab(inFile, start, N)
       IN  /\ hparams[1] = N
           /\ i = N
           /\ dIn.ok /\ dOut.ok
           /\ dIn.words = src.voc
           /\ dOut.words = src.voc
           /\ dIn.next = pos
           /\ dOut.next = Len(outDisk)
           /\ Slice(outDisk, start, Len(outDisk) - start) = Slice(inFile, start, pos - start)
           /\ \A k \in 1 .. N : vocab.id_to_token[k - 1] = src.voc[k]
           /\ N = 0 => (pos = start /\ Len(outDisk) = start)

C4_Witness ==
    /\ pc = "vocab"
    /\ ~VocabMore
    /\ HparamsDone
    /\ src.whole
    /\ Len(src.voc) = 2
    /\ src.voc[1] = << 98, 97 >>
    /\ src.voc[2] = << >>
    /\ DecodeVocab(outDisk, HeaderLen(magic) + 32, 2).words = src.voc

\* C5: when a read of the header, hyperparameter or vocabulary stage came up
\* short, the run ends with stablelm_model_quantize returning false, a
\* non-zero exit code, and no byte written after the short read.
C5_TruncatedFails ==
    ( /\ pc = "done"
      /\ shortOut # -1 )
    => /\ retval = FALSE
       /\ exitCode # 0
       /\ Len(outDisk) = shortOut

\* C6: the exit code is 0 exactly when the conversion succeeded: four
\* arguments, both files opened, a recognized magic, no read that came up
\* short, and the quantization routine returning true.
C6_ExitCodeIffSuccess ==
    pc = "done"
    => ( exitCode = 0
         <=> /\ argc = 4
             /\ inOpenable
             /\ outOpenable
             /\ magic \in Recognized
             /\ ~finFail
             /\ qargs.called
             /\ retval )

\* C7: when the target-type argument does not resolve to a supported encoding,
\* the tool prints the usage help and exits non-zero at once: neither file is
\* ever opened and the output path is left as it was.
C7_BadTypeFailsFirst ==
    ( /\ argc = 4
      /\ ggml_parse_ftype(typeArg) \notin SupportedFtypes
      /\ pc # "main" )
    => /\ pc = "done"
       /\ usage
       /\ exitCode > 0
       /\ ~finOpen
       /\ ~foutOpen
       /\ ~qargs.called
       /\ outDisk = (IF outExists THEN OldOutput ELSE << >>)

\* C8: every tensor record whose name does not end in "weight" is written
\* byte for byte as it was read; a whole input that converts has every one of
\* its records processed in order, and the output ends with the records
\* written; the engine is called with the single inclusion pattern ".*weight"
\* and no exclusion pattern.
C8_NonWeightCopied ==
    /\ \A k \in 1 .. Len(tlog) :
         ~EndsInWeight(ReadRecord(tlog[k].in, 0).name) => tlog[k].out = tlog[k].in
    /\ (pc = "done" /\ exitCode = 0 /\ src.whole)
         => /\ Len(tlog) = Len(src.tens)
            /\ \A k \in 1 .. Len(tlog) : tlog[k].in = SerTensor(src.tens[k])
            /\ LET outs == Flatten([ k \in 1 .. Len(tlog) |-> tlog[k].out ])
               IN  /\ Len(outDisk) >= Len(outs)
                   /\ SubSeq(outDisk, Len(outDisk) - Len(outs) + 1, Len(outDisk)) = outs
    /\ qargs.called
         => /\ qargs.to_quant = << PAT_WEIGHT >>
            /\ Len(qargs.to_quant) = 1
            /\ qargs.to_skip = << >>

C8_Witness ==
    /\ pc = "done"
    /\ exitCode = 0
    /\ src.whole
    /\ src.tens = << T_pos_emb >>
    /\ Len(tlog) = 1
    /\ tlog[1].out = SerTensor(T_pos_emb)

C10_OpenOrder ==
    [][ /\ ~inOpenable => (outExists' = outExists /\ outDisk' = outDisk /\ ~foutOpen')
        /\ foutOpen' => finOpen'
        /\ (pc' = "ret" /\ ~retval' /\ foutOpen') => Truncated'
      ]_vars

C10_Witness ==
    /\ pc = "done"
    /\ argc = 4
    /\ ~inOpenable
    /\ outOpenable
    /\ outExists
    /\ outDisk = OldOutput
    /\ exitCode = 1

====
